---- MODULE Spec2Model ----
(***************************************************************************)
(* A model of the WireGuard enterprise manager:                            *)
(*   - WireGuardEnterprise.deploy_infrastructure (the orchestrator) with   *)
(*     the cloud create calls of WireGuardCloud and the container create   *)
(*     calls of WireGuardContainer, whose readiness loops are modelled     *)
(*     one status read and one sleep at a time;                            *)
(*   - the two consumers of the engine's "wg show all dump" text:          *)
(*     WireGuardBridge.get_server_status and                               *)
(*     WireGuardMonitor.collect_metrics (SpecDump), and the loop of        *)
(*     WireGuardMonitor.run over several dumps (SpecLoop);                 *)
(*   - the list, status, terminate and remove calls (SpecUnits);           *)
(*   - start_services and its two threads (SpecStart), stop_services and   *)
(*     repeated calls (SpecStop);                                          *)
(*   - handle_cli, one command per process (SpecCli);                      *)
(*   - the web interface and the bridge's control operations (SpecApi).    *)
(***************************************************************************)
EXTENDS Integers, Sequences, FiniteSets, TLC

VARIABLES
    config,      \* the deployment spec file as yaml.safe_load returns it
    pc,          \* position of deploy_infrastructure / of the create call it is in
    idx,         \* 1-based position in the list being iterated
    result,      \* the local `result` of deploy_infrastructure: <<>> while unbound
    results,     \* the local `results` dict
    ret,         \* what deploy_infrastructure returned (status "none" before it returns)
    attempts,    \* status reads made by the readiness loop of the current create call
    sleeps,      \* time.sleep(1) calls made by that loop
    status,      \* container.status / readiness last read by that loop
    allPending,  \* TRUE while that loop has read nothing but a pending status
    firstReady,  \* attempt at which that loop first read a ready status, 0 if none
    units,       \* primary units that exist in the backends
    aux,         \* auxiliary resources that exist in the backends
    removeCalls, \* remove/delete/terminate calls issued to the backends
    callLog,     \* the create calls issued, in order, each with its outcome
    failed,      \* requests that are invalid or whose backend call failed
    timedOut,    \* container requests whose readiness loop ran out of attempts
    k8s_available, \* WireGuardContainer.k8s_available, set by the constructor
    dump,        \* what "wg show all dump" prints, a sequence of characters
    serverStatus, \* what WireGuardBridge.get_server_status returned
    mpc,         \* position of WireGuardMonitor.collect_metrics
    active_peers, \* locals of collect_metrics
    total_rx,
    total_tx,
    collectError, \* the exception collect_metrics caught and logged ("" if none)
    ACTIVE_CONNECTIONS, \* the Prometheus metrics of monitoring.py
    BYTES_RX,
    BYTES_TX,
    HANDSHAKE_TIMES,
    cycles,      \* collection cycles that WireGuardMonitor.run has completed
    opResult,    \* what the last list / status / terminate / remove call returned
    threads,     \* self.threads: the threads that start_services has started
    mainPc,      \* position of the main thread in the start command
    startResult, \* what start_services returned ("none" before it returns)
    alive,       \* the process has not exited
    svcCalls,    \* calls of start_services / stop_services made after the first start
    joinIdx,     \* index in self.threads of the thread that stop_services joins next
    waited,      \* join timeouts (5.0 s each) that the last stop_services sat through
    stopResult,  \* what stop_services returned ("none" before it returns)
    secret,      \* os.getenv('WIREGUARD_API_KEY') in the process of the web interface
    apiResponse, \* the last response of the web interface or return value of the bridge
    engineCalls, \* the commands run on the tunnel engine, in order
    command,     \* args.command of the process ("none": no command line)
    exitStatus   \* what handle_cli returned to sys.exit (-1 before it returns)

deployVars == <<config, pc, idx, result, results, ret, attempts, sleeps, status,
                allPending, firstReady, units, aux, removeCalls, callLog,
                failed, timedOut, k8s_available>>

telemetryVars == <<dump, serverStatus, mpc, active_peers, total_rx, total_tx,
                   collectError, ACTIVE_CONNECTIONS, BYTES_RX, BYTES_TX, HANDSHAKE_TIMES>>

\* the state of the operations that run beside deploy and one collection cycle
cycleVars == <<cycles>>
unitOpVars == <<opResult>>
taskVars == <<threads, mainPc, startResult, alive>>
callVars == <<svcCalls, joinIdx, waited, stopResult, secret, apiResponse, engineCalls,
              command, exitStatus>>
opsVars == <<cycleVars, unitOpVars, taskVars, callVars>>

vars == <<deployVars, telemetryVars, opsVars>>

----------------------------------------------------------------------------
(* Bounds and program constants *)

\* the most requests (cloud and container together) of a deployment spec
MaxRequests == 2

\* the most lines of an engine dump
MaxLines == 2

\* the most collection cycles after the first one
MaxCycles == 2

\* the most units that the backends hold, and the most of one kind
MaxUnits == 2

\* container_integration.py: for _ in range(30)
MaxAttemptsDocker == 30
\* container_integration.py: for _ in range(60)
MaxAttemptsK8s == 60

----------------------------------------------------------------------------
(* The deployment spec *)

\* a key that the mapping does not hold
NoKey == "<missing>"

CloudProviders == {"aws", "gcp", "azure"}
ContainerPlatforms == {"docker", "kubernetes"}

\* a cloud entry: its 'provider' and whether the parameters that the variant
\* indexes (ami_id, zone, location, ...) are all there
CloudRequests ==
    [provider : CloudProviders, complete : BOOLEAN]
        \cup [provider : {"digitalocean", NoKey}, complete : {TRUE}]

\* a container entry: its 'platform' and whether 'config_path' and 'name' are there
ContainerRequests ==
    [platform : ContainerPlatforms, complete : BOOLEAN]
        \cup [platform : {"lxc", NoKey}, complete : {TRUE}]

SeqsUpTo(S, n) == UNION {[1..k -> S] : k \in 0..n}

\* what yaml.safe_load can return for a file that loads: the 'cloud' and
\* 'containers' keys are optional
Configs ==
    {c \in [loads : {TRUE},
            hasCloud : BOOLEAN,
            cloud : SeqsUpTo(CloudRequests, MaxRequests),
            hasContainers : BOOLEAN,
            containers : SeqsUpTo(ContainerRequests, MaxRequests)] :
        /\ Len(c.cloud) + Len(c.containers) <= MaxRequests
        /\ (~c.hasCloud => c.cloud = <<>>)
        /\ (~c.hasContainers => c.containers = <<>>)}
    \cup {[loads |-> FALSE, hasCloud |-> FALSE, cloud |-> <<>>,
           hasContainers |-> FALSE, containers |-> <<>>]}

CloudList == config.cloud
ContainerList == config.containers
NumCloud == Len(CloudList)
NumContainers == Len(ContainerList)

----------------------------------------------------------------------------
(* Result envelopes *)

\* a per-request dict as a create call returns it; `status` is the value that
\* the key "status" ends up with
Entry(st, variant, unit, msg) ==
    [status |-> st, variant |-> variant, unit |-> unit, message |-> msg]

ErrorEntry(msg) == Entry("error", "", 0, msg)

NoReturn == [status |-> "none", message |-> "", hasLists |-> FALSE,
             cloud |-> <<>>, container |-> <<>>]

\* except Exception as e: return {"status": "error", "message": str(e)}
ErrorEnvelope(msg) == [status |-> "error", message |-> msg, hasLists |-> FALSE,
                       cloud |-> <<>>, container |-> <<>>]

\* return results
ResultsEnvelope(r) == [status |-> r.status, message |-> "", hasLists |-> TRUE,
                       cloud |-> r.cloud, container |-> r.container]

Call(list, req, variant, outcome) ==
    [list |-> list, req |-> req, variant |-> variant, outcome |-> outcome]

----------------------------------------------------------------------------
InitDeploy(configs, k8s) ==
    /\ config \in configs
    /\ pc = "start"
    /\ idx = 0
    /\ result = <<>>
    /\ results = [cloud |-> <<>>, container |-> <<>>, status |-> "none"]
    /\ ret = NoReturn
    /\ attempts = 0
    /\ sleeps = 0
    /\ status = "none"
    /\ allPending = TRUE
    /\ firstReady = 0
    /\ units = {}
    /\ aux = {}
    /\ removeCalls = {}
    /\ callLog = <<>>
    /\ failed = {}
    /\ timedOut = {}
    /\ k8s_available \in k8s

\* the state of the process before any dump is read: the metrics as
\* prometheus_client creates them
InitTelemetry(dumps) ==
    /\ dump \in dumps
    /\ serverStatus = [status |-> "none", message |-> "", peers |-> <<>>]
    /\ mpc = "start"
    /\ active_peers = 0
    /\ total_rx = 0
    /\ total_tx = 0
    /\ collectError = ""
    /\ ACTIVE_CONNECTIONS = 0
    /\ BYTES_RX = 0
    /\ BYTES_TX = 0
    /\ HANDSHAKE_TIMES = {}

\* WireGuardMonitor.run has not entered its loop
InitCycles == cycles = 0

\* the return value of an operation on the units: `items` is the list
\* returned; `failed`, `primaryDeleted` and `auxFailed` record what happened
\* in the backends during the call
OpResult(op, arg, id, st, msg, items, bad, deleted, auxBad) ==
    [op |-> op, arg |-> arg, id |-> id, status |-> st, message |-> msg,
     items |-> items, failed |-> bad, primaryDeleted |-> deleted,
     auxFailed |-> auxBad]

NoOp == OpResult("none", "", 0, "none", "", <<>>, {}, FALSE, FALSE)

InitUnitOps == opResult = NoOp

\* WireGuardEnterprise.__init__: self.threads = []; no command has run
InitTasks ==
    /\ threads = <<>>
    /\ mainPc = "start_monitor"
    /\ startResult = "none"
    /\ alive = TRUE

\* no stop_services call has been made
InitStop ==
    /\ svcCalls = 0
    /\ joinIdx = 0
    /\ waited = 0
    /\ stopResult = "none"

\* the environment's absence of WIREGUARD_API_KEY, and a request's absence
\* of the X-API-Key header: os.getenv and headers.get return None
None == "None"

\* a response: `ran` tells whether the handler body ran, `engine` what the
\* engine command did ("none": no command was run)
Response(via, route, key, code, st, ran, engine) ==
    [via |-> via, route |-> route, key |-> key, code |-> code, status |-> st,
     ran |-> ran, engine |-> engine]

NoResponse == Response("none", "", None, 0, "none", FALSE, "none")

\* the web interface has served no request and the bridge no call
InitApi(secrets) ==
    /\ secret \in secrets
    /\ apiResponse = NoResponse
    /\ engineCalls = <<>>

\* the command line of the process; handle_cli has not returned
InitCli(commands) ==
    /\ command \in commands
    /\ exitStatus = -1

InitOps == InitCycles /\ InitUnitOps /\ InitTasks /\ InitStop /\ InitApi({None})
             /\ InitCli({"none"})

Init == InitDeploy(Configs, BOOLEAN) /\ InitTelemetry({<<>>}) /\ InitOps

pollVars == <<attempts, sleeps, status, allPending, firstReady>>
backendVars == <<units, aux, removeCalls, k8s_available>>

\* the outer `except Exception` of deploy_infrastructure
Abort(msg) ==
    /\ ret' = ErrorEnvelope(msg)
    /\ pc' = "done"

\* with open(config_file) ... yaml.safe_load(f); results = {...}
LoadSpec ==
    /\ pc = "start"
    /\ IF config.loads
         THEN /\ results' = [cloud |-> <<>>, container |-> <<>>, status |-> "success"]
              /\ pc' = "cloud"
              /\ idx' = 1
              /\ ret' = ret
         ELSE /\ Abort("spec does not load")
              /\ UNCHANGED <<results, idx>>
    /\ UNCHANGED <<config, telemetryVars, opsVars, result, pollVars, backendVars, callLog, failed, timedOut>>

----------------------------------------------------------------------------
(* WireGuardCloud: the create call of each variant.  `o` is what the backend
   does with the call; the value is the dict returned and the resources the
   call leaves in the backend. *)

BackendOutcomes == {"ok", "unreachable", "rejected"}

Created(entry, us, ax) == [entry |-> entry, units |-> us, aux |-> ax]

\* create_security_group, authorize_security_group_ingress, run_instances
deploy_aws(c, i, o) ==
    IF o = "unreachable"
      THEN Created(ErrorEntry("TransportError"), {}, {})
    ELSE IF ~c.complete
      THEN Created(ErrorEntry("KeyError"), {}, {<<"security_group", i>>})
    ELSE IF o = "rejected"
      THEN Created(ErrorEntry("TransportError"), {}, {<<"security_group", i>>})
    ELSE Created(Entry("success", "aws", i, ""), {<<"aws", i>>},
                 {<<"security_group", i>>})

\* instance = {... config['zone'] ...}; instance_client.insert; operation.result()
deploy_gcp(c, i, o) ==
    IF ~c.complete
      THEN Created(ErrorEntry("KeyError"), {}, {})
    ELSE IF o # "ok"
      THEN Created(ErrorEntry("TransportError"), {}, {})
    ELSE Created(Entry("success", "gcp", i, ""), {<<"gcp", i>>}, {})

\* nsg_params = {... config['location'] ...}; begin_create_or_update; poller.result()
deploy_azure(c, i, o) ==
    IF ~c.complete
      THEN Created(ErrorEntry("KeyError"), {}, {})
    ELSE IF o # "ok"
      THEN Created(ErrorEntry("TransportError"), {}, {})
    ELSE Created(Entry("success", "azure", i, ""), {<<"azure", i>>}, {})

----------------------------------------------------------------------------
(* deploy_infrastructure: the cloud loop *)

InCloudLoop == pc = "cloud" /\ config.hasCloud /\ idx <= Len(CloudList)

\* result = self.cloud.deploy_<variant>(cloud_config); results['cloud'].append(result)
CloudCreate(variant, made) ==
    /\ result' = <<made.entry>>
    /\ results' = [results EXCEPT !.cloud = Append(@, made.entry)]
    /\ callLog' = Append(callLog, Call("cloud", idx, variant, made.entry))
    /\ units' = units \cup made.units
    /\ aux' = aux \cup made.aux
    /\ failed' = IF made.entry.status = "error"
                   THEN failed \cup {<<"cloud", idx>>} ELSE failed
    /\ idx' = idx + 1
    /\ UNCHANGED <<config, telemetryVars, opsVars, pc, ret, pollVars, removeCalls, k8s_available, timedOut>>

DeployAws ==
    /\ InCloudLoop
    /\ CloudList[idx].provider = "aws"
    /\ \E o \in BackendOutcomes : CloudCreate("aws", deploy_aws(CloudList[idx], idx, o))

DeployGcp ==
    /\ InCloudLoop
    /\ CloudList[idx].provider = "gcp"
    /\ \E o \in BackendOutcomes : CloudCreate("gcp", deploy_gcp(CloudList[idx], idx, o))

DeployAzure ==
    /\ InCloudLoop
    /\ CloudList[idx].provider = "azure"
    /\ \E o \in BackendOutcomes : CloudCreate("azure", deploy_azure(CloudList[idx], idx, o))

\* provider = cloud_config['provider'] raises KeyError: the outer except returns
CloudMissingProvider ==
    /\ InCloudLoop
    /\ CloudList[idx].provider = NoKey
    /\ Abort("KeyError")
    /\ failed' = failed \cup {<<"cloud", idx>>}
    /\ UNCHANGED <<config, telemetryVars, opsVars, idx, result, results, pollVars, backendVars, callLog, timedOut>>

\* no branch of the if/elif chain is taken: `result` keeps the value the previous
\* request left in it, and reading it while unbound raises UnboundLocalError
CloudUnknownProvider ==
    /\ InCloudLoop
    /\ CloudList[idx].provider \notin CloudProviders \cup {NoKey}
    /\ failed' = failed \cup {<<"cloud", idx>>}
    /\ IF result = <<>>
         THEN /\ Abort("UnboundLocalError")
              /\ UNCHANGED <<results, idx>>
         ELSE /\ results' = [results EXCEPT !.cloud = Append(@, result[1])]
              /\ idx' = idx + 1
              /\ UNCHANGED <<pc, ret>>
    /\ UNCHANGED <<config, telemetryVars, opsVars, result, pollVars, backendVars, callLog, timedOut>>

\* the cloud loop is over (or there is no 'cloud' key): on to 'containers'
CloudLoopEnd ==
    /\ pc = "cloud"
    /\ ~InCloudLoop
    /\ pc' = "containers"
    /\ idx' = 1
    /\ UNCHANGED <<config, telemetryVars, opsVars, result, results, ret, pollVars, backendVars, callLog,
                   failed, timedOut>>

----------------------------------------------------------------------------
(* deploy_infrastructure: the container loop, and the create calls of
   WireGuardContainer with their readiness loops *)

InContainerLoop == pc = "containers" /\ config.hasContainers /\ idx <= Len(ContainerList)

\* platform = container_config['platform'] raises KeyError
ContainerMissingPlatform ==
    /\ InContainerLoop
    /\ ContainerList[idx].platform = NoKey
    /\ Abort("KeyError")
    /\ failed' = failed \cup {<<"container", idx>>}
    /\ UNCHANGED <<config, telemetryVars, opsVars, idx, result, results, pollVars, backendVars, callLog, timedOut>>

\* container_config['config_path'] / container_config['name'] are evaluated by
\* deploy_infrastructure itself, before the create call: KeyError reaches the
\* outer except
ContainerMissingParam ==
    /\ InContainerLoop
    /\ ContainerList[idx].platform \in ContainerPlatforms
    /\ ~ContainerList[idx].complete
    /\ Abort("KeyError")
    /\ failed' = failed \cup {<<"container", idx>>}
    /\ UNCHANGED <<config, telemetryVars, opsVars, idx, result, results, pollVars, backendVars, callLog, timedOut>>

\* no branch is taken: `result` is whatever the previous request (cloud or
\* container) left in it
ContainerUnknownPlatform ==
    /\ InContainerLoop
    /\ ContainerList[idx].platform \notin ContainerPlatforms \cup {NoKey}
    /\ failed' = failed \cup {<<"container", idx>>}
    /\ IF result = <<>>
         THEN /\ Abort("UnboundLocalError")
              /\ UNCHANGED <<results, idx>>
         ELSE /\ results' = [results EXCEPT !.container = Append(@, result[1])]
              /\ idx' = idx + 1
              /\ UNCHANGED <<pc, ret>>
    /\ UNCHANGED <<config, telemetryVars, opsVars, result, pollVars, backendVars, callLog, timedOut>>

\* a readiness loop starts, or the create call it belongs to is over: nothing
\* read, nothing slept
PollReset(st) ==
    /\ attempts' = 0
    /\ sleeps' = 0
    /\ status' = st
    /\ allPending' = TRUE
    /\ firstReady' = 0

\* the create call returns `entry`: result = ...; results['container'].append(result)
ContainerReturn(variant, entry) ==
    /\ PollReset("none")
    /\ result' = <<entry>>
    /\ results' = [results EXCEPT !.container = Append(@, entry)]
    /\ callLog' = Append(callLog, Call("container", idx, variant, entry))
    /\ failed' = IF entry.status = "error"
                   THEN failed \cup {<<"container", idx>>} ELSE failed
    /\ idx' = idx + 1
    /\ pc' = "containers"
    /\ UNCHANGED <<config, telemetryVars, opsVars, ret>>

\* one status read of a readiness loop returned `obs`
PollRead(obs, ready, pending) ==
    /\ attempts' = attempts + 1
    /\ sleeps' = sleeps
    /\ status' = obs
    /\ allPending' = (allPending /\ obs = pending)
    /\ firstReady' = IF obs = ready /\ firstReady = 0 THEN attempts + 1 ELSE firstReady

(* create_docker_container *)

\* the statuses container.reload() can leave in container.status
DockerStatuses == {"created", "running", "exited"}

\* a loop that gives up one iteration early
DockerRangeOffByOne(n) == n < MaxAttemptsDocker - 1

\* for _ in range(30): another iteration after `n` of them?
DockerRange(n) == n < MaxAttemptsDocker

\* the dict literal of the success return names the key "status" twice,
\* "success" and then container.status: the later value is the one kept
DockerSuccessDict(containerStatus, i) == Entry(containerStatus, "docker", i, "")

\* os.path.exists(config_path); self.docker_client.containers.run(..., detach=True)
DockerStart ==
    /\ InContainerLoop
    /\ ContainerList[idx].platform = "docker"
    /\ ContainerList[idx].complete
    /\ \E o \in {"no_file", "unreachable", "ok"} :
         IF o = "ok"
           THEN /\ units' = units \cup {<<"docker", idx>>}
                /\ PollReset("created")
                /\ pc' = "docker_loop"
                /\ UNCHANGED <<config, telemetryVars, opsVars, idx, result, results, ret, callLog, failed>>
           ELSE /\ ContainerReturn("docker",
                      ErrorEntry(IF o = "no_file" THEN "FileNotFoundError"
                                                  ELSE "TransportError"))
                /\ UNCHANGED units
    /\ UNCHANGED <<aux, removeCalls, k8s_available, timedOut>>

\* container.reload(); if container.status == 'running': break
DockerReload ==
    /\ pc = "docker_loop"
    /\ \/ \E obs \in DockerStatuses :
            /\ PollRead(obs, "running", "created")
            /\ pc' = IF obs = "running" THEN "docker_after" ELSE "docker_sleep"
            /\ UNCHANGED <<config, telemetryVars, opsVars, idx, result, results, ret, callLog, failed>>
       \/ \* reload() raises: except Exception returns the error dict
          /\ ContainerReturn("docker", ErrorEntry("TransportError"))
    /\ UNCHANGED <<backendVars, timedOut>>

\* time.sleep(1), then the next iteration if range(30) has one
DockerSleep ==
    /\ pc = "docker_sleep"
    /\ sleeps' = sleeps + 1
    /\ pc' = IF DockerRange(attempts) THEN "docker_loop" ELSE "docker_after"
    /\ timedOut' = IF DockerRange(attempts) THEN timedOut
                                            ELSE timedOut \cup {<<"container", idx>>}
    /\ UNCHANGED <<config, telemetryVars, opsVars, idx, result, results, ret, attempts, status, allPending,
                   firstReady, backendVars, callLog, failed>>

\* a create call that removes the container it could not see running
DockerAfterRollback ==
    /\ pc = "docker_after"
    /\ ContainerReturn("docker",
          IF status # "running" THEN ErrorEntry("RuntimeError")
                                ELSE DockerSuccessDict(status, idx))
    /\ units' = IF status # "running" THEN units \ {<<"docker", idx>>} ELSE units
    /\ removeCalls' = IF status # "running"
                        THEN removeCalls \cup {<<"docker", idx>>} ELSE removeCalls
    /\ UNCHANGED <<aux, k8s_available, timedOut>>

\* if container.status != 'running': raise RuntimeError(...)  -> the error dict;
\* otherwise the success dict
DockerAfter ==
    /\ pc = "docker_after"
    /\ ContainerReturn("docker",
          IF status # "running" THEN ErrorEntry("RuntimeError")
                                ELSE DockerSuccessDict(status, idx))
    /\ UNCHANGED <<backendVars, timedOut>>

(* create_k8s_deployment *)

\* what read_namespaced_deployment_status shows: ready_replicas == 1 ("ready"),
\* not yet ("pending"), or a deployment whose conditions say it cannot become
\* ready ("failed"); the loop looks at ready_replicas alone
K8sStatuses == {"pending", "ready", "failed"}

\* for _ in range(60): another iteration after `n` of them?
K8sRange(n) == n < MaxAttemptsK8s

\* the return after the loop: the same dict whether or not the loop saw
\* ready_replicas == 1
K8sReturnDict(lastRead, i) == Entry("success", "kubernetes", i, "")

\* if not self.k8s_available: return error;  os.path.exists; create_namespace;
\* create/replace the ConfigMap; create_namespaced_deployment
K8sStart ==
    /\ InContainerLoop
    /\ ContainerList[idx].platform = "kubernetes"
    /\ ContainerList[idx].complete
    /\ IF ~k8s_available
         THEN /\ ContainerReturn("kubernetes", ErrorEntry("Kubernetes not configured"))
              /\ UNCHANGED <<units, aux>>
         ELSE \E o \in {"no_file", "unreachable", "rejected", "ok"} :
                IF o = "ok"
                  THEN /\ units' = units \cup {<<"kubernetes", idx>>}
                       /\ aux' = aux \cup {<<"config_map", idx>>}
                       /\ PollReset("pending")
                       /\ pc' = "k8s_loop"
                       /\ UNCHANGED <<config, telemetryVars, opsVars, idx, result, results, ret, callLog, failed>>
                  ELSE /\ ContainerReturn("kubernetes",
                             ErrorEntry(IF o = "no_file" THEN "FileNotFoundError"
                                                         ELSE "TransportError"))
                       \* the deployment is refused after the ConfigMap was written
                       /\ aux' = IF o = "rejected" THEN aux \cup {<<"config_map", idx>>}
                                                   ELSE aux
                       /\ UNCHANGED units
    /\ UNCHANGED <<removeCalls, k8s_available, timedOut>>

\* response = apps_v1.read_namespaced_deployment_status(name, namespace);
\* if response.status.ready_replicas == 1: break
K8sRead ==
    /\ pc = "k8s_loop"
    /\ \/ \E obs \in K8sStatuses :
            /\ PollRead(obs, "ready", "pending")
            /\ pc' = IF obs = "ready" THEN "k8s_after" ELSE "k8s_sleep"
            /\ UNCHANGED <<config, telemetryVars, opsVars, idx, result, results, ret, callLog, failed>>
       \/ \* the read raises: except Exception returns the error dict
          /\ ContainerReturn("kubernetes", ErrorEntry("TransportError"))
    /\ UNCHANGED <<backendVars, timedOut>>

\* time.sleep(1), then the next iteration if range(60) has one
K8sSleep ==
    /\ pc = "k8s_sleep"
    /\ sleeps' = sleeps + 1
    /\ pc' = IF K8sRange(attempts) THEN "k8s_loop" ELSE "k8s_after"
    /\ timedOut' = IF K8sRange(attempts) THEN timedOut
                                         ELSE timedOut \cup {<<"container", idx>>}
    /\ UNCHANGED <<config, telemetryVars, opsVars, idx, result, results, ret, attempts, status, allPending,
                   firstReady, backendVars, callLog, failed>>

\* self.logger.info(...); return {"status": "success", ...}
K8sAfter ==
    /\ pc = "k8s_after"
    /\ ContainerReturn("kubernetes", K8sReturnDict(status, idx))
    /\ UNCHANGED <<backendVars, timedOut>>

\* the container loop is over (or there is no 'containers' key): return results
ContainerLoopEnd ==
    /\ pc = "containers"
    /\ ~InContainerLoop
    /\ ret' = ResultsEnvelope(results)
    /\ pc' = "done"
    /\ UNCHANGED <<config, telemetryVars, opsVars, idx, result, results, pollVars, backendVars, callLog,
                   failed, timedOut>>

----------------------------------------------------------------------------
Next ==
    \/ LoadSpec
    \/ DeployAws
    \/ DeployGcp
    \/ DeployAzure
    \/ CloudMissingProvider
    \/ CloudUnknownProvider
    \/ CloudLoopEnd
    \/ ContainerMissingPlatform
    \/ ContainerMissingParam
    \/ ContainerUnknownPlatform
    \/ DockerStart
    \/ DockerReload
    \/ DockerSleep
    \/ DockerAfter
    \/ K8sStart
    \/ K8sRead
    \/ K8sSleep
    \/ K8sAfter
    \/ ContainerLoopEnd

Spec == Init /\ [][Next]_vars

----------------------------------------------------------------------------
(* Properties of deploy_infrastructure *)

Returned == pc = "done"

FailureEntries(list) == {i \in 1..Len(list) : list[i].status = "error"}
SuccessEntries(list) == {i \in 1..Len(list) : list[i].status = "success"}

\* the create call issued for request `i` of `list`, to `variant`, returned `entry`
Dispatched(list, i, variant, entry) ==
    \E k \in 1..Len(callLog) : callLog[k] = Call(list, i, variant, entry)

\* C1: for every spec that loads, a failing request (a create call that fails
\* in the backend, a missing parameter, a missing or unknown discriminator) is
\* recorded as a Failure entry of that request, and every later request is
\* still dispatched: deploy returns one entry per request
C1_NoShortCircuit ==
    (Returned /\ config.loads) =>
        /\ ret.hasLists
        /\ Len(ret.cloud) = NumCloud
        /\ Len(ret.container) = NumContainers
        /\ \A i \in 1..NumCloud :
              <<"cloud", i>> \in failed => ret.cloud[i].status = "error"
        /\ \A i \in 1..NumContainers :
              <<"container", i>> \in failed => ret.container[i].status = "error"

\* C2: the envelope status is error if and only if the spec file does not load;
\* for every spec that loads it is success and the per-request lists are returned
C2_EnvelopeErrorIffLoadFails ==
    Returned =>
        /\ (ret.status = "error") <=> ~config.loads
        /\ config.loads => (ret.status = "success" /\ ret.hasLists)

\* C3: with N cloud and M container requests of which K fail, deploy returns
\* N cloud entries and M container entries, exactly K of them Failure entries
\* and N+M-K Success entries, with envelope status success
C3_ExactCounts ==
    (Returned /\ config.loads) =>
        /\ ret.status = "success"
        /\ Len(ret.cloud) = NumCloud
        /\ Len(ret.container) = NumContainers
        /\ Cardinality(FailureEntries(ret.cloud))
             + Cardinality(FailureEntries(ret.container)) = Cardinality(failed)
        /\ Cardinality(SuccessEntries(ret.cloud))
             + Cardinality(SuccessEntries(ret.container))
               = NumCloud + NumContainers - Cardinality(failed)

\* C4: requests are processed in the order given, and the i-th entry of each
\* result list is the outcome of the create call issued for the i-th request
\* of that list to the variant its discriminator names
C4_EntryIsOwnOutcome ==
    /\ \A i \in 1..Len(results.cloud) :
          /\ i <= NumCloud
          /\ Dispatched("cloud", i, CloudList[i].provider, results.cloud[i])
    /\ \A i \in 1..Len(results.container) :
          /\ i <= NumContainers
          /\ Dispatched("container", i, ContainerList[i].platform, results.container[i])
    /\ \A k, l \in 1..Len(callLog) :
          k < l => \/ callLog[k].list = "cloud" /\ callLog[l].list = "container"
                   \/ callLog[k].list = callLog[l].list /\ callLog[k].req < callLog[l].req

----------------------------------------------------------------------------
(* Properties of the readiness loops *)

InDockerWait == pc \in {"docker_loop", "docker_sleep", "docker_after"}
InK8sWait == pc \in {"k8s_loop", "k8s_sleep", "k8s_after"}
WaitOver == pc \in {"docker_after", "k8s_after"}

\* C5: a unit that stays Pending has its status read exactly maxAttempts times
\* (30 reloads of the container, 60 reads of the deployment status), no more
\* and no fewer, and the wait is then over
C5_ExactlyMaxAttempts ==
    /\ InDockerWait => attempts <= MaxAttemptsDocker
    /\ InK8sWait => attempts <= MaxAttemptsK8s
    /\ (pc = "docker_after" /\ allPending) => attempts = MaxAttemptsDocker
    /\ (pc = "k8s_after" /\ allPending) => attempts = MaxAttemptsK8s

\* a container stayed "created" through all 30 reloads and the wait is over
C5_Witness == pc = "docker_after" /\ allPending /\ attempts = MaxAttemptsDocker

\* C6: when the attempts are exhausted and the unit is still not ready, the
\* create call returns an error: it never reports success for a unit whose
\* readiness it did not see
C6_TimeoutSurfaced ==
    \A k \in 1..Len(callLog) :
        (callLog[k].list = "container" /\ <<"container", callLog[k].req>> \in timedOut)
            => callLog[k].outcome.status = "error"

\* C7: once the unit has been read in a failed state, the wait returns at once:
\* no further status read and no further sleep
C7_FailedReturnsImmediately ==
    [][((InDockerWait \/ InK8sWait) /\ status \in {"exited", "failed"})
          => (attempts' <= attempts /\ sleeps' <= sleeps)]_vars

\* C8: at most maxAttempts status reads; a unit first read ready at attempt k
\* has been read exactly k times, no sleep follows that read, and the create
\* call reports success
C8_ReadyReportsSuccess ==
    [][(WaitOver /\ firstReady > 0)
          => /\ attempts = firstReady
             /\ sleeps = firstReady - 1
             /\ attempts <= (IF InDockerWait THEN MaxAttemptsDocker ELSE MaxAttemptsK8s)
             /\ result' # <<>>
             /\ result'[1].status = "success"]_vars

\* C9: a unit whose readiness wait timed out is left in place, with its
\* auxiliary resources: the timeout issues no remove, delete or terminate call
C9_NoRollbackOnTimeout ==
    /\ removeCalls = {}
    /\ \A r \in timedOut :
          /\ <<ContainerList[r[2]].platform, r[2]>> \in units
          /\ ContainerList[r[2]].platform = "kubernetes" => <<"config_map", r[2]>> \in aux

\* a create call has returned after its readiness wait timed out
C9_Witness ==
    /\ timedOut # {}
    /\ \E k \in 1..Len(callLog) :
          callLog[k].list = "container" /\ <<"container", callLog[k].req>> \in timedOut

----------------------------------------------------------------------------
(* The engine's status dump, as text *)

TAB == "\t"
NL == "\n"

\* a dump line of `n` fields in the engine's order: interface, public key,
\* preshared key, endpoint, allowed-ips, latest-handshake, rx, tx, keepalive
LineFields(n, key, allowed, handshake, rx, tx) ==
    SubSeq(<< <<"w">>, key, <<"n">>, <<"e">>, allowed, handshake, rx, tx, <<"o">> >>,
           1, n)

RECURSIVE Join(_, _)
\* sep.join(pieces)
Join(pieces, sep) ==
    IF pieces = <<>> THEN <<>>
    ELSE IF Len(pieces) = 1 THEN pieces[1]
    ELSE pieces[1] \o <<sep>> \o Join(Tail(pieces), sep)

\* the allowed-ips, latest-handshake and rx fields of a peer line: all of them
\* numeric, or one of them not
PeerFields ==
    {[allowed |-> <<"0">>, handshake |-> <<"7">>, rx |-> <<"1", "2">>],
     [allowed |-> <<"a">>, handshake |-> <<"7">>, rx |-> <<"1", "2">>],
     [allowed |-> <<"0">>, handshake |-> <<"x">>, rx |-> <<"1", "2">>],
     [allowed |-> <<"0">>, handshake |-> <<"7">>, rx |-> <<"x">>]}

\* the lines the engine may print: an empty line, lines of 1, 5 and 7 fields
\* (too short for a peer), and peer lines of 8 and 9 fields
DumpLines ==
    {<<>>}
    \cup {Join(LineFields(n, <<"A">>, <<"0">>, <<"7">>, <<"1", "2">>, <<"3">>), TAB) :
            n \in {1, 5, 7}}
    \cup {Join(LineFields(n, key, f.allowed, f.handshake, f.rx, <<"3">>), TAB) :
            n \in {8, 9}, key \in {<<"A">>, <<"B">>}, f \in PeerFields}

RECURSIVE Unlines(_)
\* every line followed by a newline, as the engine prints them
Unlines(lines) ==
    IF lines = <<>> THEN <<>> ELSE lines[1] \o <<NL>> \o Unlines(Tail(lines))

Dumps == {Unlines(ls) : ls \in SeqsUpTo(DumpLines, MaxLines)}

----------------------------------------------------------------------------
(* str.strip, str.split, int and float, as far as the dump's characters go *)

IsSpace(c) == c \in {" ", TAB, NL}

\* t.strip(): leading and trailing whitespace removed
Strip(t) ==
    LET keep == {i \in 1..Len(t) : ~IsSpace(t[i])}
    IN  IF keep = {} THEN <<>>
        ELSE SubSeq(t, CHOOSE i \in keep : \A j \in keep : i <= j,
                       CHOOSE i \in keep : \A j \in keep : j <= i)

RECURSIVE SplitFrom(_, _, _, _)
\* the pieces of t[i..] between separators, `piece` being the one under way
SplitFrom(t, sep, i, piece) ==
    IF i > Len(t) THEN <<piece>>
    ELSE IF t[i] = sep THEN <<piece>> \o SplitFrom(t, sep, i + 1, <<>>)
    ELSE SplitFrom(t, sep, i + 1, Append(piece, t[i]))

\* t.split(sep): always at least one piece, "" for the empty string
Split(t, sep) == SplitFrom(t, sep, 1, <<>>)

Digits == <<"0", "1", "2", "3", "4", "5", "6", "7", "8", "9">>
IsDigit(c) == \E d \in 1..10 : Digits[d] = c
DigitValue(c) == (CHOOSE d \in 1..10 : Digits[d] = c) - 1

RECURSIVE DigitsValue(_, _)
DigitsValue(ds, acc) ==
    IF ds = <<>> THEN acc ELSE DigitsValue(Tail(ds), 10 * acc + DigitValue(ds[1]))

Parsed(v) == [ok |-> TRUE, value |-> v]
ValueError == [ok |-> FALSE, value |-> 0]

\* int(s): optional sign, then decimal digits; anything else raises ValueError
ParseInt(str) ==
    LET s == Strip(str)
        signed == s # <<>> /\ s[1] \in {"-", "+"}
        ds == IF signed THEN Tail(s) ELSE s
    IN  IF ds = <<>> \/ \E i \in 1..Len(ds) : ~IsDigit(ds[i]) THEN ValueError
        ELSE IF signed /\ s[1] = "-" THEN Parsed(0 - DigitsValue(ds, 0))
        ELSE Parsed(DigitsValue(ds, 0))

\* float(s) for the strings a dump field made of digits, signs and letters
\* can be: the integers parse, the rest raises ValueError
ParseFloat(str) == ParseInt(str)

----------------------------------------------------------------------------
(* WireGuardBridge.get_server_status *)

\* if len(fields) >= 8
BridgeIsPeer(fields) == Len(fields) >= 8

\* a record that takes every field one position early
BridgePeerShifted(fields) ==
    [public_key |-> fields[1], endpoint |-> fields[3], allowed_ips |-> fields[4],
     latest_handshake |-> fields[5], transfer_rx |-> fields[6],
     transfer_tx |-> fields[7]]

\* the dict appended to status["peers"]
BridgePeer(fields) ==
    [public_key |-> fields[2], endpoint |-> fields[4], allowed_ips |-> fields[5],
     latest_handshake |-> fields[6], transfer_rx |-> fields[7],
     transfer_tx |-> fields[8]]

RECURSIVE BridgePeers(_)
\* for line in lines: fields = line.split('\t'); ...
BridgePeers(lines) ==
    IF lines = <<>> THEN <<>>
    ELSE LET fields == Split(lines[1], TAB)
         IN  (IF BridgeIsPeer(fields) THEN <<BridgePeer(fields)>> ELSE <<>>)
                \o BridgePeers(Tail(lines))

\* execute_bash_command('wg show all dump') and the parse of its output;
\* a non-zero exit of the engine is returned as the error envelope
get_server_status(exit, output) ==
    IF exit # 0
      THEN [status |-> "error", message |-> "stderr", peers |-> <<>>]
      ELSE [status |-> "success", message |-> "",
            peers |-> BridgePeers(Split(Strip(output), NL))]

GetServerStatus ==
    /\ serverStatus.status = "none"
    /\ \E exit \in {0, 1} : serverStatus' = get_server_status(exit, dump)
    /\ UNCHANGED <<deployVars, opsVars, dump, mpc, active_peers, total_rx, total_tx, collectError,
                   ACTIVE_CONNECTIONS, BYTES_RX, BYTES_TX, HANDSHAKE_TIMES>>

----------------------------------------------------------------------------
(* WireGuardMonitor.collect_metrics *)

\* a line counted as a peer although it is one field short
MonitorIsPeerSevenFields(parts) == Len(parts) >= 7

\* if len(parts) >= 8
MonitorIsPeer(parts) == Len(parts) >= 8

Infinite == [inf |-> TRUE, value |-> 0]
Finite(v) == [inf |-> FALSE, value |-> v]

\* HANDSHAKE_TIMES.labels(peer=key): the child gauge, created at 0 when new
WithLabel(gauge, key) ==
    IF \E e \in gauge : e[1] = key THEN gauge ELSE gauge \cup {<<key, Finite(0)>>}

\* HANDSHAKE_TIMES.labels(peer=key).set(v)
SetLabel(gauge, key, v) == {e \in gauge : e[1] # key} \cup {<<key, v>>}

\* the body of `for line in lines` applied to the loop's state `acc`; parts[k]
\* of the source is parts[k + 1] here
MonitorLine(acc, line) ==
    LET parts == Split(line, TAB) IN
    IF line = <<>> \/ ~MonitorIsPeer(parts) THEN acc
    ELSE
      LET counted == [acc EXCEPT !.active_peers = @ + 1]
          rx == ParseInt(parts[6])
          tx == ParseInt(parts[7])
          labelled == WithLabel(acc.handshakes, parts[2])
          hs == IF parts[5] = <<"0">> THEN [ok |-> TRUE, value |-> Infinite]
                ELSE LET f == ParseFloat(parts[5])
                     IN  [ok |-> f.ok, value |-> Finite(f.value)]
      IN  IF ~rx.ok THEN [counted EXCEPT !.error = "ValueError"]
          ELSE IF ~tx.ok
            THEN [counted EXCEPT !.total_rx = @ + rx.value, !.error = "ValueError"]
          ELSE IF ~hs.ok
            THEN [counted EXCEPT !.total_rx = @ + rx.value, !.total_tx = @ + tx.value,
                                 !.handshakes = labelled, !.error = "ValueError"]
          ELSE [counted EXCEPT !.total_rx = @ + rx.value, !.total_tx = @ + tx.value,
                               !.handshakes = SetLabel(labelled, parts[2], hs.value)]

RECURSIVE MonitorLines(_, _)
\* the for loop: it ends at the first line that raises
MonitorLines(acc, lines) ==
    IF lines = <<>> \/ acc.error # "" THEN acc
    ELSE MonitorLines(MonitorLine(acc, lines[1]), Tail(lines))

\* subprocess.run(['wg', 'show', 'all', 'dump']) and the loop over its lines;
\* an exception is caught and logged by the except of collect_metrics
MonitorLoop ==
    /\ mpc = "start"
    /\ \/ /\ collectError' = "OSError"
          /\ mpc' = "done"
          /\ UNCHANGED <<active_peers, total_rx, total_tx, HANDSHAKE_TIMES>>
       \/ LET acc == MonitorLines([active_peers |-> 0, total_rx |-> 0, total_tx |-> 0,
                                   handshakes |-> HANDSHAKE_TIMES, error |-> ""],
                                  Split(Strip(dump), NL))
          IN  /\ active_peers' = acc.active_peers
              /\ total_rx' = acc.total_rx
              /\ total_tx' = acc.total_tx
              /\ HANDSHAKE_TIMES' = acc.handshakes
              /\ collectError' = acc.error
              /\ mpc' = IF acc.error = "" THEN "set_gauge" ELSE "done"
    /\ UNCHANGED <<deployVars, opsVars, dump, serverStatus, ACTIVE_CONNECTIONS, BYTES_RX, BYTES_TX>>

\* ACTIVE_CONNECTIONS.set(active_peers)
MonitorSetGauge ==
    /\ mpc = "set_gauge"
    /\ ACTIVE_CONNECTIONS' = active_peers
    /\ mpc' = "inc_rx"
    /\ UNCHANGED <<deployVars, opsVars, dump, serverStatus, active_peers, total_rx, total_tx,
                   collectError, BYTES_RX, BYTES_TX, HANDSHAKE_TIMES>>

\* a counter that takes any amount
CounterRejectsNothing(amount) == FALSE

\* Counter.inc(amount) raises ValueError on a negative amount
CounterRejects(amount) == amount < 0

\* a collect_metrics whose except does not cover the counters: the ValueError
\* of a rejected increment leaves run and ends the thread
MonitorIncRxUncaught ==
    /\ mpc = "inc_rx"
    /\ IF CounterRejects(total_rx)
         THEN collectError' = "ValueError" /\ mpc' = "crashed" /\ BYTES_RX' = BYTES_RX
         ELSE BYTES_RX' = BYTES_RX + total_rx /\ mpc' = "inc_tx"
                /\ collectError' = collectError
    /\ UNCHANGED <<deployVars, opsVars, dump, serverStatus, active_peers, total_rx, total_tx,
                   ACTIVE_CONNECTIONS, BYTES_TX, HANDSHAKE_TIMES>>

\* BYTES_TRANSFERRED.labels(direction='rx').inc(total_rx)
MonitorIncRx ==
    /\ mpc = "inc_rx"
    /\ IF CounterRejects(total_rx)
         THEN collectError' = "ValueError" /\ mpc' = "done" /\ BYTES_RX' = BYTES_RX
         ELSE BYTES_RX' = BYTES_RX + total_rx /\ mpc' = "inc_tx"
                /\ collectError' = collectError
    /\ UNCHANGED <<deployVars, opsVars, dump, serverStatus, active_peers, total_rx, total_tx,
                   ACTIVE_CONNECTIONS, BYTES_TX, HANDSHAKE_TIMES>>

\* BYTES_TRANSFERRED.labels(direction='tx').inc(total_tx), then the system
\* gauges and the log line
MonitorIncTx ==
    /\ mpc = "inc_tx"
    /\ IF CounterRejects(total_tx)
         THEN collectError' = "ValueError" /\ BYTES_TX' = BYTES_TX
         ELSE BYTES_TX' = BYTES_TX + total_tx /\ collectError' = collectError
    /\ mpc' = "done"
    /\ UNCHANGED <<deployVars, opsVars, dump, serverStatus, active_peers, total_rx, total_tx,
                   ACTIVE_CONNECTIONS, BYTES_RX, HANDSHAKE_TIMES>>

----------------------------------------------------------------------------
(* One dump read by both consumers *)

InitDump == InitDeploy({[loads |-> FALSE, hasCloud |-> FALSE, cloud |-> <<>>,
                         hasContainers |-> FALSE, containers |-> <<>>]}, {FALSE})
              /\ InitTelemetry(Dumps)
              /\ InitOps

NextDump ==
    \/ GetServerStatus
    \/ MonitorLoop
    \/ MonitorSetGauge
    \/ MonitorIncRx
    \/ MonitorIncTx

SpecDump == InitDump /\ [][NextDump]_vars

----------------------------------------------------------------------------
(* WireGuardMonitor.run: one collection cycle after the other *)

\* the lines of the dumps that the loop reads: a peer line of integers, and
\* peer lines where the latest-handshake or the rx field is negative or no
\* integer
CycleLines ==
    {Join(LineFields(8, <<"A">>, <<"0">>, handshake, <<"1", "2">>, <<"3">>), TAB) :
            handshake \in {<<"7">>, <<"-", "9">>, <<"x">>}}
      \cup {Join(LineFields(8, <<"A">>, <<"0">>, <<"7">>, <<"-", "5">>, <<"3">>), TAB)}

CycleDumps == {Unlines(ls) : ls \in SeqsUpTo(CycleLines, MaxLines)}

\* while True: self.collect_metrics(); time.sleep(COLLECTION_INTERVAL): the
\* call has returned, the interval passes and the next call starts, with
\* fresh locals and whatever the engine prints then
MonitorSleep ==
    /\ mpc = "done"
    /\ cycles < MaxCycles
    /\ cycles' = cycles + 1
    /\ mpc' = "start"
    /\ dump' \in CycleDumps
    /\ active_peers' = 0
    /\ total_rx' = 0
    /\ total_tx' = 0
    /\ collectError' = ""
    /\ UNCHANGED <<deployVars, unitOpVars, taskVars, callVars, serverStatus, ACTIVE_CONNECTIONS,
                   BYTES_RX, BYTES_TX, HANDSHAKE_TIMES>>

InitLoop == InitDeploy({[loads |-> FALSE, hasCloud |-> FALSE, cloud |-> <<>>,
                         hasContainers |-> FALSE, containers |-> <<>>]}, {FALSE})
              /\ InitTelemetry(CycleDumps)
              /\ InitOps

NextLoop ==
    \/ MonitorLoop
    \/ MonitorSetGauge
    \/ MonitorIncRx
    \/ MonitorIncTx
    \/ MonitorSleep

SpecLoop == InitLoop /\ [][NextLoop]_vars

\* the step of MonitorSleep when the engine prints the same dump again
SleepSameDump == MonitorSleep /\ dump' = dump

NextLoopFair ==
    \/ MonitorLoop
    \/ MonitorSetGauge
    \/ MonitorIncRx
    \/ MonitorIncTx
    \/ SleepSameDump

\* the loop over an engine that prints one dump throughout, when
\* time.sleep(COLLECTION_INTERVAL) returns: the thread is not held forever
\* between two cycles
SpecLoopFair == InitLoop /\ [][NextLoopFair]_vars /\ WF_vars(SleepSameDump)

----------------------------------------------------------------------------
(* The units in the backends: list_instances, list_containers,
   get_system_status, terminate_instance and remove_container *)

\* a caller makes one call: handle_cli serves one command per process
Idle == opResult = NoOp

UnitKinds == CloudProviders \cup ContainerPlatforms
UnitIds == 1..MaxUnits

\* what the create call of a unit leaves beside the unit in its backend: the
\* security group of deploy_aws, the ConfigMap of create_k8s_deployment
AuxOf(u) ==
    IF u[1] = "aws"
      THEN deploy_aws([provider |-> "aws", complete |-> TRUE], u[2], "ok").aux
    ELSE IF u[1] = "kubernetes" THEN {<<"config_map", u[2]>>}
    ELSE {}

\* the units that earlier deployments have left in the backends
Backends == {us \in SUBSET (UnitKinds \X UnitIds) : Cardinality(us) <= MaxUnits}

\* the state names of each backend's own vocabulary that a listing can show
NativeStates(kind) ==
    CASE kind = "aws" -> {"running", "shutting-down"}
      [] kind = "gcp" -> {"RUNNING", "PROVISIONING"}
      [] kind = "azure" -> {"Succeeded", "Deleting"}
      [] kind = "docker" -> {"running", "exited"}
      [] kind = "kubernetes" -> {"Running", "Succeeded"}
      [] OTHER -> {}

\* the ids of the units of `kind`, in the order the backend lists them
IdsOf(kind) ==
    LET ids == {i \in UnitIds : <<kind, i>> \in units}
    IN  [k \in 1..Cardinality(ids) |->
            CHOOSE i \in ids : Cardinality({j \in ids : j <= i}) = k]

\* where a listing can raise: 0 is the listing call itself, k the read of the
\* k-th descriptor, n + 1 nowhere.  describe_instances and
\* list_pod_for_all_namespaces return plain data that is read by key and
\* attribute; the gcp and azure listings are paged iterators, the gcp
\* descriptor is indexed (network_interfaces[0].access_configs[0]) and every
\* docker container is asked for its stats
FailPoints(kind, n) ==
    IF kind \in {"aws", "kubernetes"} THEN {0, n + 1} ELSE 0..(n + 1)

\* what the backend does during one listing of `kind`
Listings(kind) ==
    [fail : FailPoints(kind, Len(IdsOf(kind))),
     states : [1..Len(IdsOf(kind)) -> NativeStates(kind)]]

\* the dict appended for one unit: its state is the backend's own word
ListedUnit(kind, id, native) == [kind |-> kind, id |-> id, state |-> native]

\* the entries appended to the list before the listing raised, if it did
ListBackend(kind, o) ==
    LET n == Len(IdsOf(kind))
        got == IF o.fail > n THEN n ELSE IF o.fail = 0 THEN 0 ELSE o.fail - 1
    IN  [k \in 1..got |-> ListedUnit(kind, IdsOf(kind)[k], o.states[k])]

ListingFailed(kind, o) == o.fail <= Len(IdsOf(kind))

\* list_instances(provider): the except logs, and `return instances` returns
\* what the loop had appended; no branch for another provider
list_instances(provider, o) ==
    IF provider \in CloudProviders THEN ListBackend(provider, o) ELSE <<>>

ListInstances ==
    /\ Idle
    /\ \E provider \in CloudProviders \cup {"digitalocean"} :
         \E o \in Listings(provider) :
            opResult' = OpResult("list_instances", provider, 0, "list", "",
                                 list_instances(provider, o),
                                 IF ListingFailed(provider, o) THEN {provider} ELSE {},
                                 FALSE, FALSE)
    /\ UNCHANGED <<deployVars, telemetryVars, cycleVars, taskVars, callVars>>

\* list_containers(): the docker part and, if self.k8s_available, the pods
\* part, each with its own except
list_containers(od, ok) ==
    ListBackend("docker", od)
        \o (IF k8s_available THEN ListBackend("kubernetes", ok) ELSE <<>>)

ContainerListingsFailed(od, ok) ==
    (IF ListingFailed("docker", od) THEN {"docker"} ELSE {})
        \cup (IF k8s_available /\ ListingFailed("kubernetes", ok)
                THEN {"kubernetes"} ELSE {})

ListContainers ==
    /\ Idle
    /\ \E od \in Listings("docker"), ok \in Listings("kubernetes") :
          opResult' = OpResult("list_containers", "", 0, "list", "",
                               list_containers(od, ok),
                               ContainerListingsFailed(od, ok), FALSE, FALSE)
    /\ UNCHANGED <<deployVars, telemetryVars, cycleVars, taskVars, callVars>>

\* get_system_status(): the lists are collected into `status`, then
\* status['monitoring_metrics'] is built from ACTIVE_CONNECTIONS and
\* BYTES_TRANSFERRED, names that wireguard_enterprise.py neither defines nor
\* imports: NameError, caught by the except, which returns the error envelope
get_system_status(aws, gcp, azure, containers) ==
    LET snapshot == [cloud_instances |-> [aws |-> aws, gcp |-> gcp, azure |-> azure],
                     containers |-> containers]
    IN  OpResult("get_system_status", "", 0, "error", "NameError", <<>>, {}, FALSE, FALSE)

GetSystemStatus ==
    /\ Idle
    /\ \E oa \in Listings("aws"), og \in Listings("gcp"), oz \in Listings("azure"),
          od \in Listings("docker"), ok \in Listings("kubernetes") :
          opResult' = [get_system_status(list_instances("aws", oa),
                                         list_instances("gcp", og),
                                         list_instances("azure", oz),
                                         list_containers(od, ok))
                         EXCEPT !.failed =
                            {b \in CloudProviders :
                                ListingFailed(b, CASE b = "aws" -> oa [] b = "gcp" -> og
                                                   [] OTHER -> oz)}
                              \cup ContainerListingsFailed(od, ok)]
    /\ UNCHANGED <<deployVars, telemetryVars, cycleVars, taskVars, callVars>>

\* what a terminate / remove call did: the value returned and the backends
\* after it
Removed(res, us, ax, calls) == [result |-> res, units |-> us, aux |-> ax, calls |-> calls]

\* terminate_instance(provider, instance_id): one delete call to the
\* provider's client, none for another provider, and success unless it raised
terminate_instance(provider, id, o) ==
    LET u == <<provider, id>> IN
    IF provider \notin CloudProviders
      THEN Removed(OpResult("terminate_instance", provider, id, "success", "",
                            <<>>, {}, FALSE, FALSE),
                   units, aux, removeCalls)
    ELSE IF o = "ok"
      THEN Removed(OpResult("terminate_instance", provider, id, "success", "",
                            <<>>, {}, u \in units, FALSE),
                   units \ {u}, aux, removeCalls \cup {u})
    ELSE Removed(OpResult("terminate_instance", provider, id, "error", "TransportError",
                          <<>>, {}, FALSE, FALSE),
                 units, aux, removeCalls \cup {u})

\* the delete of a unit that is not there raises, except at azure, whose
\* delete of an absent machine is accepted
TerminateOutcomes(provider, id) ==
    IF <<provider, id>> \in units \/ provider = "azure" THEN {"ok", "error"} ELSE {"error"}

TerminateInstance ==
    /\ Idle
    /\ \E provider \in CloudProviders \cup {"digitalocean"}, id \in UnitIds :
         \E o \in TerminateOutcomes(provider, id) :
            LET r == terminate_instance(provider, id, o)
            IN  /\ opResult' = r.result
                /\ units' = r.units
                /\ aux' = r.aux
                /\ removeCalls' = r.calls
    /\ UNCHANGED <<config, pc, idx, result, results, ret, pollVars, callLog, failed,
                   timedOut, k8s_available, telemetryVars, cycleVars, taskVars, callVars>>

\* what the clients do during remove_container: `get` is containers.get /
\* read_namespaced_pod, `del` is stop and remove / delete_namespaced_deployment,
\* `cm` is delete_namespaced_config_map, which can raise the client's
\* ApiException or another exception (the transport's)
RemoveOutcomes == [get : {"ok", "error"}, del : {"ok", "error"},
                   cm : {"ok", "ApiException", "error"}]

RemoveError(type, id, deleted, auxBad) ==
    OpResult("remove_container", type, id, "error", "Error removing container",
             <<>>, {}, deleted, auxBad)

\* remove_container(container_id, container_type)
remove_container(id, type, o) ==
    LET u == <<type, id>>
        cm == <<"config_map", id>>
    IN
    IF type = "docker"
      THEN IF u \notin units \/ o.get = "error"
             THEN Removed(RemoveError(type, id, FALSE, FALSE), units, aux, removeCalls)
           ELSE IF o.del = "error"
             THEN Removed(RemoveError(type, id, FALSE, FALSE), units, aux,
                          removeCalls \cup {u})
           ELSE Removed(OpResult("remove_container", type, id, "success", "",
                                 <<>>, {}, TRUE, FALSE),
                        units \ {u}, aux, removeCalls \cup {u})
    ELSE IF type = "kubernetes" /\ k8s_available
      THEN IF u \notin units \/ o.get = "error"
             THEN Removed(RemoveError(type, id, FALSE, FALSE), units, aux, removeCalls)
           ELSE IF o.del = "error"
             THEN Removed(RemoveError(type, id, FALSE, FALSE), units, aux,
                          removeCalls \cup {u})
           \* except client.rest.ApiException: pass
           ELSE IF o.cm = "ApiException"
             THEN Removed(OpResult("remove_container", type, id, "success", "",
                                   <<>>, {}, TRUE, TRUE),
                          units \ {u}, aux, removeCalls \cup {u, cm})
           \* any other exception leaves the inner try for the outer except
           ELSE IF o.cm = "error"
             THEN Removed(RemoveError(type, id, TRUE, TRUE),
                          units \ {u}, aux, removeCalls \cup {u, cm})
           ELSE Removed(OpResult("remove_container", type, id, "success", "",
                                 <<>>, {}, TRUE, FALSE),
                        units \ {u}, aux \ {cm}, removeCalls \cup {u, cm})
    \* raise ValueError(f"Invalid container type: {container_type}")
    ELSE Removed(RemoveError(type, id, FALSE, FALSE), units, aux, removeCalls)

RemoveContainer ==
    /\ Idle
    /\ \E id \in UnitIds, type \in ContainerPlatforms \cup {"lxc"}, o \in RemoveOutcomes :
         LET r == remove_container(id, type, o)
         IN  /\ opResult' = r.result
             /\ units' = r.units
             /\ aux' = r.aux
             /\ removeCalls' = r.calls
    /\ UNCHANGED <<config, pc, idx, result, results, ret, pollVars, callLog, failed,
                   timedOut, k8s_available, telemetryVars, cycleVars, taskVars, callVars>>

\* no deployment runs; the backends hold the units of earlier deployments,
\* each with what its create call left beside it
InitUnits ==
    /\ config = [loads |-> FALSE, hasCloud |-> FALSE, cloud |-> <<>>,
                 hasContainers |-> FALSE, containers |-> <<>>]
    /\ pc = "start"
    /\ idx = 0
    /\ result = <<>>
    /\ results = [cloud |-> <<>>, container |-> <<>>, status |-> "none"]
    /\ ret = NoReturn
    /\ attempts = 0
    /\ sleeps = 0
    /\ status = "none"
    /\ allPending = TRUE
    /\ firstReady = 0
    /\ units \in Backends
    /\ aux = UNION {AuxOf(u) : u \in units}
    /\ removeCalls = {}
    /\ callLog = <<>>
    /\ failed = {}
    /\ timedOut = {}
    /\ k8s_available \in BOOLEAN
    /\ InitTelemetry({<<>>})
    /\ InitOps

NextUnits ==
    \/ ListInstances
    \/ ListContainers
    \/ GetSystemStatus
    \/ TerminateInstance
    \/ RemoveContainer

SpecUnits == InitUnits /\ [][NextUnits]_vars

----------------------------------------------------------------------------
(* start_services and the two background threads.  The engine reports no
   peer here (the dump is empty), so a collection cycle sets the gauge to 0
   and adds 0 to the counters. *)

Task(task, pos, st) == [task |-> task, pos |-> pos, state |-> st]

\* a failure that takes every thread of the process down with it
AfterFailureStopsAll(ts, k) == [j \in 1..Len(ts) |-> [ts[j] EXCEPT !.state = "Failed"]]

\* an exception that leaves the target of a threading.Thread ends that
\* thread and no other
AfterFailure(ts, k) == [ts EXCEPT ![k].state = "Failed"]

\* monitor_thread = threading.Thread(target=self.monitor.run); daemon = True;
\* start(); self.threads.append(monitor_thread).  Thread.start raises
\* RuntimeError when no thread can be started: the except returns False
StartMonitor ==
    /\ alive
    /\ mainPc = "start_monitor"
    /\ \E o \in {"ok", "RuntimeError"} :
         IF o = "ok"
           THEN /\ threads' = Append(threads, Task("monitor", "http", "Running"))
                /\ mainPc' = "start_web"
                /\ startResult' = startResult
           ELSE /\ startResult' = "false"
                /\ mainPc' = "returned"
                /\ threads' = threads
    /\ UNCHANGED <<deployVars, telemetryVars, cycleVars, unitOpVars, callVars, alive>>

\* a start that creates the metrics anew when it has started its threads
StartWebResetsAccumulator ==
    /\ alive
    /\ mainPc = "start_web"
    /\ threads' = Append(threads, Task("web", "bind", "Running"))
    /\ startResult' = "true"
    /\ mainPc' = "returned"
    /\ ACTIVE_CONNECTIONS' = 0
    /\ BYTES_RX' = 0
    /\ BYTES_TX' = 0
    /\ HANDSHAKE_TIMES' = {}
    /\ UNCHANGED <<deployVars, dump, serverStatus, mpc, active_peers, total_rx, total_tx,
                   collectError, cycleVars, unitOpVars, callVars, alive>>

\* web_thread = threading.Thread(target=web_app.run, ...); daemon = True;
\* start(); self.threads.append(web_thread); return True
StartWeb ==
    /\ alive
    /\ mainPc = "start_web"
    /\ \E o \in {"ok", "RuntimeError"} :
         IF o = "ok"
           THEN /\ threads' = Append(threads, Task("web", "bind", "Running"))
                /\ startResult' = "true"
           ELSE /\ startResult' = "false"
                /\ threads' = threads
    /\ mainPc' = "returned"
    /\ UNCHANGED <<deployVars, telemetryVars, cycleVars, unitOpVars, callVars, alive>>

Runs(k, task, pos) == k \in 1..Len(threads) /\ threads[k] = Task(task, pos, "Running")

\* WireGuardMonitor.run: start_http_server(METRICS_PORT) has returned
MonitorHttp ==
    /\ \E k \in 1..Len(threads) :
          /\ Runs(k, "monitor", "http")
          /\ threads' = [threads EXCEPT ![k].pos = "loop"]
    /\ UNCHANGED <<deployVars, telemetryVars, cycleVars, unitOpVars, callVars, mainPc, startResult,
                   alive>>

\* while True: self.collect_metrics(); time.sleep(COLLECTION_INTERVAL)
MonitorCycle ==
    /\ \E k \in 1..Len(threads) : Runs(k, "monitor", "loop")
    /\ cycles < MaxCycles
    /\ cycles' = cycles + 1
    /\ UNCHANGED <<deployVars, telemetryVars, unitOpVars, taskVars, callVars>>

\* web_app.run(host='0.0.0.0', port=5000): the listener is bound and serves
WebBind ==
    /\ \E k \in 1..Len(threads) :
          /\ Runs(k, "web", "bind")
          /\ threads' = [threads EXCEPT ![k].pos = "serving"]
    /\ UNCHANGED <<deployVars, telemetryVars, cycleVars, unitOpVars, callVars, mainPc, startResult,
                   alive>>

\* an exception leaves monitor.run: start_http_server cannot bind its port,
\* or an error that the except of collect_metrics does not catch
MonitorFails ==
    /\ \E k \in 1..Len(threads) :
          /\ threads[k].task = "monitor"
          /\ threads[k].state = "Running"
          /\ threads' = AfterFailure(threads, k)
    /\ UNCHANGED <<deployVars, telemetryVars, cycleVars, unitOpVars, callVars, mainPc, startResult,
                   alive>>

\* an exception leaves web_app.run: the port is taken, or the server fails
\* while it serves
WebFails ==
    /\ \E k \in 1..Len(threads) :
          /\ threads[k].task = "web"
          /\ threads[k].state = "Running"
          /\ threads' = AfterFailure(threads, k)
    /\ UNCHANGED <<deployVars, telemetryVars, cycleVars, unitOpVars, callVars, mainPc, startResult,
                   alive>>

\* handle_cli returns after start_services and main calls sys.exit: the
\* process ends and its daemon threads end with it
ProcessExit ==
    /\ alive
    /\ mainPc = "returned"
    /\ alive' = FALSE
    /\ mainPc' = "exited"
    /\ threads' = [k \in 1..Len(threads) |->
                     IF threads[k].state = "Running"
                       THEN [threads[k] EXCEPT !.state = "Killed"] ELSE threads[k]]
    /\ UNCHANGED <<deployVars, telemetryVars, cycleVars, unitOpVars, callVars, startResult>>

InitStart == InitDeploy({[loads |-> FALSE, hasCloud |-> FALSE, cloud |-> <<>>,
                          hasContainers |-> FALSE, containers |-> <<>>]}, BOOLEAN)
               /\ InitTelemetry({<<>>})
               /\ InitOps

NextStart ==
    \/ StartMonitor
    \/ StartWeb
    \/ MonitorHttp
    \/ MonitorCycle
    \/ WebBind
    \/ MonitorFails
    \/ WebFails
    \/ ProcessExit

SpecStart == InitStart /\ [][NextStart]_vars

----------------------------------------------------------------------------
(* stop_services, and start_services called again, on one WireGuardEnterprise
   whose start_services has been called *)

\* the most calls of start_services / stop_services after the first start
MaxCalls == 2

\* def start_services(self): the method looks at no earlier start or stop;
\* its try block starts and appends two new threads as the first call did
CallStart ==
    /\ alive
    /\ mainPc = "returned"
    /\ svcCalls < MaxCalls
    /\ svcCalls' = svcCalls + 1
    /\ mainPc' = "start_monitor"
    /\ startResult' = "none"
    /\ UNCHANGED <<deployVars, telemetryVars, cycleVars, unitOpVars, threads, alive,
                   joinIdx, waited, stopResult, secret, apiResponse, engineCalls,
                   command, exitStatus>>

\* def stop_services(self): the try block enters "for thread in self.threads"
CallStop ==
    /\ alive
    /\ mainPc = "returned"
    /\ svcCalls < MaxCalls
    /\ svcCalls' = svcCalls + 1
    /\ mainPc' = "join"
    /\ joinIdx' = 1
    /\ waited' = 0
    /\ stopResult' = "none"
    /\ UNCHANGED <<deployVars, telemetryVars, cycleVars, unitOpVars, threads,
                   startResult, alive, secret, apiResponse, engineCalls, command,
                   exitStatus>>

\* thread.join(timeout=5.0): returns at once for a thread that has ended and
\* after the whole timeout for one that runs; nothing tells the thread to end
StopJoin ==
    /\ mainPc = "join"
    /\ joinIdx <= Len(threads)
    /\ waited' = IF threads[joinIdx].state = "Running" THEN waited + 1 ELSE waited
    /\ joinIdx' = joinIdx + 1
    /\ UNCHANGED <<deployVars, telemetryVars, cycleVars, unitOpVars, taskVars,
                   svcCalls, stopResult, secret, apiResponse, engineCalls, command,
                   exitStatus>>

\* the loop is over: "All enterprise services stopped successfully", return True
StopReturn ==
    /\ mainPc = "join"
    /\ joinIdx > Len(threads)
    /\ stopResult' = "true"
    /\ mainPc' = "returned"
    /\ UNCHANGED <<deployVars, telemetryVars, cycleVars, unitOpVars, threads,
                   startResult, alive, svcCalls, joinIdx, waited, secret,
                   apiResponse, engineCalls, command, exitStatus>>

NextStop ==
    \/ StartMonitor
    \/ StartWeb
    \/ MonitorHttp
    \/ MonitorCycle
    \/ WebBind
    \/ MonitorFails
    \/ WebFails
    \/ CallStart
    \/ CallStop
    \/ StopJoin
    \/ StopReturn

SpecStop == InitStart /\ [][NextStop]_vars

----------------------------------------------------------------------------
(* handle_cli: one process serves one command.  Beside the four commands of
   the parser, "none" stands for a program that calls the list, terminate
   and remove methods itself. *)

Commands == {"start", "stop", "status", "deploy", "none"}

\* handle_cli, from the command and what its operation returned: start and
\* stop return 0 when the service call returned True and fall through to the
\* final return 1 otherwise; status prints the snapshot and returns 0; deploy
\* returns 1 without --config and else 0 exactly for a result of status success
handle_cli(cmd, hasConfig, outcome) ==
    CASE cmd \in {"start", "stop"} -> IF outcome = "true" THEN 0 ELSE 1
      [] cmd = "status" -> 0
      [] cmd = "deploy" -> IF ~hasConfig THEN 1
                           ELSE IF outcome = "success" THEN 0 ELSE 1
      [] OTHER -> 1

\* the command is being served: handle_cli has not returned
Serving(cmd) == command = cmd /\ exitStatus = -1

\* the operation of the command has returned and handle_cli returns the exit
\* status to sys.exit; a deploy command without --config returns before any
\* operation
CliExit ==
    /\ alive
    /\ exitStatus = -1
    /\ \/ /\ command = "start"
          /\ mainPc = "returned"
          /\ exitStatus' = handle_cli("start", FALSE, startResult)
       \/ /\ command = "stop"
          /\ stopResult # "none"
          /\ exitStatus' = handle_cli("stop", FALSE, stopResult)
       \/ /\ command = "status"
          /\ opResult.op = "get_system_status"
          /\ exitStatus' = handle_cli("status", FALSE, opResult.status)
       \/ /\ command = "deploy"
          /\ pc = "start"
          /\ exitStatus' = handle_cli("deploy", FALSE, "none")
       \/ /\ command = "deploy"
          /\ ret # NoReturn
          /\ exitStatus' = handle_cli("deploy", TRUE, ret.status)
    /\ UNCHANGED <<deployVars, telemetryVars, cycleVars, unitOpVars, taskVars,
                   svcCalls, joinIdx, waited, stopResult, secret, apiResponse,
                   engineCalls, command>>

\* the monitor thread, inside the loop of WireGuardMonitor.run, makes the
\* steps of a collection cycle
CollectInThread ==
    /\ \E k \in 1..Len(threads) : Runs(k, "monitor", "loop")
    /\ \/ MonitorLoop
       \/ MonitorSetGauge
       \/ MonitorIncRx
       \/ MonitorIncTx

\* WireGuardEnterprise() in main: the spec file of a deploy command, the units
\* that a status or list call finds in the backends, the dump that the
\* monitor thread of a start command reads.  self.threads is empty in every
\* new process, so the loop of stop_services in a stop command joins nothing
InitCliRun ==
    /\ InitCli(Commands)
    /\ config \in (IF command = "deploy" THEN Configs
                   ELSE {[loads |-> FALSE, hasCloud |-> FALSE, cloud |-> <<>>,
                          hasContainers |-> FALSE, containers |-> <<>>]})
    /\ pc = "start"
    /\ idx = 0
    /\ result = <<>>
    /\ results = [cloud |-> <<>>, container |-> <<>>, status |-> "none"]
    /\ ret = NoReturn
    /\ attempts = 0
    /\ sleeps = 0
    /\ status = "none"
    /\ allPending = TRUE
    /\ firstReady = 0
    /\ units \in (IF command \in {"status", "none"} THEN Backends ELSE {{}})
    /\ aux = UNION {AuxOf(u) : u \in units}
    /\ removeCalls = {}
    /\ callLog = <<>>
    /\ failed = {}
    /\ timedOut = {}
    /\ k8s_available \in BOOLEAN
    /\ InitTelemetry(IF command = "start" THEN CycleDumps ELSE {<<>>})
    /\ InitCycles /\ InitUnitOps /\ InitStop /\ InitApi({None})
    /\ threads = <<>>
    /\ mainPc = (IF command = "start" THEN "start_monitor" ELSE "returned")
    /\ startResult = "none"
    /\ alive = TRUE

NextCli ==
    \/ Serving("deploy") /\ Next
    \/ Serving("status") /\ GetSystemStatus
    \/ Serving("none") /\ (ListInstances \/ ListContainers \/ TerminateInstance
                             \/ RemoveContainer)
    \/ Serving("start") /\ (StartMonitor \/ StartWeb)
    \/ command = "start" /\ (MonitorHttp \/ WebBind \/ MonitorFails \/ WebFails)
    \/ command = "start" /\ CollectInThread
    \/ Serving("stop") /\ stopResult = "none" /\ (CallStop \/ StopReturn)
    \/ CliExit
    \/ exitStatus # -1 /\ ProcessExit

SpecCli == InitCliRun /\ [][NextCli]_vars

----------------------------------------------------------------------------
(* The web interface (require_api_key and its four routes) and the control
   operations of the bridge, each running a command of the tunnel engine *)

\* the most engine commands run in one behaviour
MaxEngineCalls == 2

\* values of the X-API-Key header and of WIREGUARD_API_KEY: absent, empty,
\* and two keys
Keys == {None, "", "k1", "k2"}

\* the decorator accepts every key that equals the configured one
AuthorizedByEquality(key, sec) == key = sec

\* require_api_key: "if not api_key or api_key != os.getenv(...)" rejects;
\* not api_key holds for an absent and for an empty header
Authorized(key, sec) == ~(key = None \/ key = "") /\ key = sec

Routes == {"get_status", "list_clients", "create_client", "list_tunnels"}

\* what running the engine command does: it exits with 0, it exits with a
\* failure status, or subprocess.run raises because nothing can be run
EngineOutcomes == {"exit0", "exit1", "raises"}

\* the body of a route: create_client reads data["name"] first (an exception
\* without it); subprocess.run has no check=True, so the handler answers
\* success whatever the exit status and error only for an exception
route_handler(route, hasName, o) ==
    IF route = "create_client" /\ ~hasName
      THEN [status |-> "error", engine |-> "none"]
      ELSE IF o = "raises" THEN [status |-> "error", engine |-> o]
           ELSE [status |-> "success", engine |-> o]

\* a request to a route: the decorator answers 401 or runs the body
ApiRequest ==
    /\ Len(engineCalls) < MaxEngineCalls
    /\ \E route \in Routes, key \in Keys, hasName \in BOOLEAN, o \in EngineOutcomes :
         IF Authorized(key, secret)
           THEN LET h == route_handler(route, hasName, o) IN
                /\ apiResponse' = Response("api", route, key, 200, h.status, TRUE,
                                           h.engine)
                /\ engineCalls' = IF h.engine \in {"exit0", "exit1"}
                                    THEN Append(engineCalls,
                                                [via |-> "api", route |-> route,
                                                 key |-> key])
                                    ELSE engineCalls
           ELSE /\ apiResponse' = Response("api", route, key, 401, "Unauthorized",
                                           FALSE, "none")
                /\ engineCalls' = engineCalls
    /\ UNCHANGED <<deployVars, telemetryVars, cycleVars, unitOpVars, taskVars,
                   svcCalls, joinIdx, waited, stopResult, secret, command,
                   exitStatus>>

\* execute_bash_command: subprocess.run(..., check=True) returns for exit
\* status 0 and raises CalledProcessError for any other, which the except
\* turns into the error dict; another exception leaves the method
execute_bash_command(o) ==
    CASE o = "exit0" -> "success"
      [] o = "exit1" -> "error"
      [] OTHER -> "raised"

BridgeOps == {"create_client", "remove_client", "get_client_config"}

\* create_client and remove_client return what execute_bash_command returns;
\* get_client_config renames the output of a success and returns an error as
\* it is
BridgeControl ==
    /\ Len(engineCalls) < MaxEngineCalls
    /\ \E op \in BridgeOps, o \in EngineOutcomes :
         /\ apiResponse' = Response("bridge", op, None, 0, execute_bash_command(o),
                                    TRUE, o)
         /\ engineCalls' = IF o \in {"exit0", "exit1"}
                             THEN Append(engineCalls,
                                         [via |-> "bridge", route |-> op, key |-> None])
                             ELSE engineCalls
    /\ UNCHANGED <<deployVars, telemetryVars, cycleVars, unitOpVars, taskVars,
                   svcCalls, joinIdx, waited, stopResult, secret, command,
                   exitStatus>>

InitApiRun ==
    /\ InitDeploy({[loads |-> FALSE, hasCloud |-> FALSE, cloud |-> <<>>,
                    hasContainers |-> FALSE, containers |-> <<>>]}, {FALSE})
    /\ InitTelemetry({<<>>})
    /\ InitCycles /\ InitUnitOps /\ InitTasks /\ InitStop /\ InitCli({"none"})
    /\ InitApi(Keys)

NextApi ==
    \/ ApiRequest
    \/ BridgeControl

SpecApi == InitApiRun /\ [][NextApi]_vars

----------------------------------------------------------------------------
(* Properties of the dump's consumers *)

RECURSIVE CountLongLines(_, _, _, _)
\* the lines of t[i..] that hold 7 tabs or more (8 fields or more), `tabs`
\* being the tabs of the line under way
CountLongLines(t, i, tabs, count) ==
    LET more == IF tabs >= 7 THEN 1 ELSE 0 IN
    IF i > Len(t) THEN count + more
    ELSE IF t[i] = NL THEN CountLongLines(t, i + 1, 0, count + more)
    ELSE IF t[i] = TAB THEN CountLongLines(t, i + 1, tabs + 1, count)
    ELSE CountLongLines(t, i + 1, tabs, count)

LongLines(t) == CountLongLines(t, 1, 0, 0)
LineCount(t) == Cardinality({i \in 1..Len(t) : t[i] = NL})

\* C10: in both consumers of the dump, a line with fewer than 8 tab-separated
\* fields yields no peer record, is not counted as a peer and raises no
\* error, and the other lines are still processed: the records and the peer
\* count are those of the lines with 8 fields or more
C10_ShortLinesSkipped ==
    /\ serverStatus.status = "success" => Len(serverStatus.peers) = LongLines(dump)
    /\ mpc \in {"set_gauge", "inc_rx", "inc_tx"} => active_peers = LongLines(dump)
    /\ collectError = "ValueError" => LongLines(dump) > 0
    /\ LongLines(dump) = 0 =>
          /\ active_peers = 0 /\ total_rx = 0 /\ total_tx = 0
          /\ ACTIVE_CONNECTIONS = 0 /\ BYTES_RX = 0 /\ BYTES_TX = 0
          /\ HANDSHAKE_TIMES = {}

\* a dump of a short line followed by a peer line, read by both consumers
C10_Witness ==
    /\ LineCount(dump) = 2
    /\ LongLines(dump) = 1
    /\ SubSeq(dump, 1, 2) = <<"w", NL>>
    /\ serverStatus.status = "success"
    /\ Len(serverStatus.peers) = 1
    /\ mpc = "done"
    /\ collectError = ""
    /\ ACTIVE_CONNECTIONS = 1

----------------------------------------------------------------------------
(* The peer records of a dump, read off the text itself *)

\* the n-th piece of `t` between separators `sep`: the characters that have
\* n - 1 separators before them
Piece(t, sep, n) ==
    LET at == {i \in 1..Len(t) :
                 /\ t[i] # sep
                 /\ Cardinality({j \in 1..(i - 1) : t[j] = sep}) = n - 1}
    IN  IF at = {} THEN <<>>
        ELSE LET first == CHOOSE i \in at : \A j \in at : i <= j
             IN  [k \in 1..Cardinality(at) |-> t[first + k - 1]]

TabCount(line) == Cardinality({i \in 1..Len(line) : line[i] = TAB})

\* the lines of the text that hold 8 fields or more, in the order of the text
PeerLines(t) ==
    SelectSeq([k \in 1..(LineCount(t) + 1) |-> Piece(t, NL, k)],
              LAMBDA l : TabCount(l) >= 7)

\* one record per such line, from its 2nd, 4th, 5th, 6th, 7th and 8th field
ExpectedPeers(t) ==
    LET lines == PeerLines(t)
    IN  [k \in 1..Len(lines) |->
            LET l == lines[k]
            IN  [public_key |-> Piece(l, TAB, 2),
                 endpoint |-> Piece(l, TAB, 4),
                 allowed_ips |-> Piece(l, TAB, 5),
                 latest_handshake |-> Piece(l, TAB, 6),
                 transfer_rx |-> Piece(l, TAB, 7),
                 transfer_tx |-> Piece(l, TAB, 8)]]

Numeric(field) == ParseInt(field).ok

\* C12: a latest-handshake, rx or tx field that is no integer counts as 0 for
\* its peer and aborts nothing: the parser's records carry integers in these
\* fields, and a collection cycle that obtained the dump (the other fields
\* being such that it can use them) ends without an error, with every peer
\* line of the dump counted
C12_NonNumericIsZero ==
    /\ serverStatus.status = "success" =>
          \A k \in 1..Len(serverStatus.peers) :
              /\ Numeric(serverStatus.peers[k].latest_handshake)
              /\ Numeric(serverStatus.peers[k].transfer_rx)
              /\ Numeric(serverStatus.peers[k].transfer_tx)
    /\ (/\ mpc = "done"
        /\ collectError # "OSError"
        /\ \A k \in 1..Len(ExpectedPeers(dump)) :
              Numeric(ExpectedPeers(dump)[k].allowed_ips))
          => (collectError = "" /\ ACTIVE_CONNECTIONS = LongLines(dump))

\* C13: over any sequence of collection cycles of one process, failed cycles
\* and dumps with malformed or negative values included, neither the rx nor
\* the tx counter ever decreases or is reset
C13_CountersNeverDecrease ==
    [][BYTES_RX' >= BYTES_RX /\ BYTES_TX' >= BYTES_TX]_vars

\* a later cycle whose rx total is negative has been refused by the counter,
\* which keeps what the earlier cycles added
C13_Witness ==
    /\ cycles >= 1
    /\ mpc = "done"
    /\ total_rx < 0
    /\ collectError = "ValueError"
    /\ BYTES_RX > 0
    /\ BYTES_TX > 0

\* the accumulator as the process creates it: no cycle has changed it
Untouched ==
    /\ ACTIVE_CONNECTIONS = 0
    /\ BYTES_RX = 0
    /\ BYTES_TX = 0
    /\ HANDSHAKE_TIMES = {}

\* C14: a reader that runs beside the telemetry loop sees no torn update.
\* collect_metrics takes no lock, so a reader thread can run between any two
\* of its steps and every state of the cycle is one a reader can see: in each
\* of them either none of the cycle's updates (handshake entries, connection
\* gauge, rx counter, tx counter) is applied or all of them are, also when
\* the cycle fails midway
C14_NoTornUpdate ==
    \/ Untouched
    \/ mpc = "done" /\ collectError = ""

----------------------------------------------------------------------------
(* Properties of the listings and of terminate / remove *)

Listed == opResult.op \in {"list_instances", "list_containers"}
Released == opResult.op \in {"terminate_instance", "remove_container"}

\* C15: a list operation never hands an error to its caller, and when the
\* listing of a backend fails at any point (the listing call or the read of
\* one unit's descriptor) the list returned holds no unit of that backend:
\* empty, not partial
C15_FailedListIsEmpty ==
    Listed =>
        /\ opResult.status = "list"
        /\ \A k \in 1..Len(opResult.items) :
              opResult.items[k].kind \notin opResult.failed

\* C16: get_system_status always returns a snapshot and never the error
\* envelope; the snapshot holds no unit of a backend whose listing failed and
\* every unit of every other backend
C16_SnapshotAlwaysReturned ==
    opResult.op = "get_system_status" =>
        /\ opResult.status = "snapshot"
        /\ \A k \in 1..Len(opResult.items) :
              opResult.items[k].kind \notin opResult.failed
        /\ \A u \in units :
              (u[1] \notin opResult.failed /\ (u[1] = "kubernetes" => k8s_available))
                 => \E k \in 1..Len(opResult.items) :
                       opResult.items[k].kind = u[1] /\ opResult.items[k].id = u[2]

\* the fixed states of a managed unit, in any of the usual spellings
StateEnum ==
    {"Pending", "Running", "Stopped", "Failed", "Unknown"}
        \cup {"pending", "running", "stopped", "failed", "unknown"}
        \cup {"PENDING", "RUNNING", "STOPPED", "FAILED", "UNKNOWN"}

\* C17: every unit that a list operation returns has a state of the fixed set
\* Pending, Running, Stopped, Failed, Unknown, whatever the backend's own word
C17_StateInEnum ==
    Listed => \A k \in 1..Len(opResult.items) : opResult.items[k].state \in StateEnum

\* C18: when terminate / remove of a unit has returned success, a release
\* has been issued for everything that the unit's create call left beside it
\* (the security group of an aws instance, the ConfigMap of a deployment)
C18_AuxReleasedWithUnit ==
    (Released /\ opResult.status = "success" /\ opResult.primaryDeleted)
        => AuxOf(<<opResult.arg, opResult.id>>) \subseteq removeCalls

----------------------------------------------------------------------------
(* Properties of the background threads *)

\* thread k goes from Running to Failed in this step
FailsNow(k) ==
    /\ k \in 1..Len(threads)
    /\ threads[k].state = "Running"
    /\ Len(threads') >= k
    /\ threads'[k].state = "Failed"

\* C20: an uncaught error in one background task, wherever the task is in
\* its run, leaves every other task as it was (a Running one Running), does
\* not end the process and does not make start_services fail: not in the
\* step of the failure, and not later, start_services returning True once
\* both threads are started
C20_TaskFailureIsIsolated ==
    [][/\ \A k \in 1..Len(threads) :
            FailsNow(k) =>
                /\ \A j \in 1..Len(threads) : j # k => threads'[j] = threads[j]
                /\ alive' = alive
                /\ startResult' = startResult
                /\ mainPc' = mainPc
       /\ (mainPc = "start_web" /\ Len(threads') = 2) => startResult' = "true"]_vars

\* the telemetry thread has failed, before start_services went on to start
\* the listener: the listener runs, start_services has returned True and the
\* process is there
C20_Witness ==
    /\ Len(threads) = 2
    /\ threads[1] = Task("monitor", "http", "Failed")
    /\ threads[2] = Task("web", "serving", "Running")
    /\ startResult = "true"
    /\ alive

----------------------------------------------------------------------------
(* Properties of stop_services and of repeated calls *)

\* C21: stop returns after waiting at most one timeout in total, however many
\* started threads never finish: the timeouts it sat through number at most 1
C21_StopWaitsAtMostTimeout == waited <= 1

\* C22: stop signals every running task, so that once stop has returned no
\* thread it joined is still Running (each is winding down, stopped or failed)
C22_StopEndsRunningTasks ==
    stopResult = "true" =>
        \A k \in 1..(joinIdx - 1) : threads[k].state # "Running"

\* C23: a start after a stop launches no thread and does not return True, and
\* self.threads never holds two threads of the same named task
C23_StartIsGuarded ==
    [][/\ stopResult = "true" =>
            /\ Len(threads') = Len(threads)
            /\ startResult' = "true" => startResult = "true"
       /\ \A j, k \in 1..Len(threads') :
            j # k => threads'[j].task # threads'[k].task]_vars

\* the part of C23 about a start after a stop, on its own
StartAfterStopLaunchesNothing ==
    [][stopResult = "true" =>
            /\ Len(threads') = Len(threads)
            /\ startResult' = "true" => startResult = "true"]_vars

----------------------------------------------------------------------------
(* Properties of the command line *)

\* the status of what the operation of the command returned: True / False of
\* start and stop read as success / error
EnvelopeStatus ==
    CASE command = "start" -> IF startResult = "true" THEN "success" ELSE "error"
      [] command = "stop" -> IF stopResult = "true" THEN "success" ELSE "error"
      [] command = "status" -> opResult.status
      [] command = "deploy" -> ret.status
      [] OTHER -> "none"

\* C24: for each command whose operation returned, the exit status is
\* non-zero exactly when the operation's envelope has status error
C24_ExitStatusFollowsEnvelope ==
    (exitStatus # -1 /\ EnvelopeStatus # "none") =>
        (exitStatus # 0 <=> EnvelopeStatus = "error")

\* the same for the commands other than status
ExitStatusFollowsEnvelopeButStatus ==
    command # "status" => C24_ExitStatusFollowsEnvelope

----------------------------------------------------------------------------
(* Properties of the web interface and of the bridge's control operations *)

\* the request that got the last response carried a non-empty key equal to
\* the configured one
KeyMatches(key) == key # None /\ key # "" /\ key = secret

\* C25: the body of a route runs, and an engine command is run for a request,
\* only if the request carries a non-empty X-API-Key equal to the configured
\* key; every other request, also while no key is configured, gets 401 and
\* runs no engine command
C25_HandlerOnlyWithKey ==
    /\ apiResponse.via = "api" =>
          /\ apiResponse.ran => KeyMatches(apiResponse.key)
          /\ ~KeyMatches(apiResponse.key) =>
                /\ apiResponse.code = 401
                /\ ~apiResponse.ran
                /\ apiResponse.engine = "none"
    /\ \A i \in 1..Len(engineCalls) :
          engineCalls[i].via = "api" => KeyMatches(engineCalls[i].key)

\* an authorized request has run an engine command and a later request with
\* a key has been answered 401
C25_Witness ==
    /\ Len(engineCalls) = 1
    /\ engineCalls[1].via = "api"
    /\ apiResponse.via = "api"
    /\ apiResponse.code = 401
    /\ apiResponse.key \notin {None, ""}

\* a request with a key is answered 401 while no key is configured
RejectedWithoutSecret ==
    /\ secret = None
    /\ apiResponse.code = 401
    /\ apiResponse.key = "k1"

\* C26: a control operation (create peer, remove peer, read configuration)
\* whose engine command ran reports success exactly when the command exited
\* with 0, and the error envelope when it exited with a failure status
C26_SuccessIffExitZero ==
    (apiResponse.route \in BridgeOps /\ apiResponse.engine \in {"exit0", "exit1"}) =>
        /\ apiResponse.status = "success" <=> apiResponse.engine = "exit0"
        /\ apiResponse.engine = "exit1" => apiResponse.status = "error"

\* the same for the operations of the bridge alone
BridgeSuccessIffExitZero ==
    apiResponse.via = "bridge" => C26_SuccessIffExitZero

----------------------------------------------------------------------------
(* Properties of the accumulator after a collection cycle *)

RECURSIVE SumField(_, _, _)
\* the sum of the integers in field `f` of the records ps[k..]
SumField(ps, k, f) ==
    IF k > Len(ps) THEN 0 ELSE ParseInt(ps[k][f]).value + SumField(ps, k + 1, f)

\* every peer line of the text has a non-negative integer as latest-handshake,
\* rx and tx field
WellFormed(t) ==
    LET ps == ExpectedPeers(t) IN
    \A k \in 1..Len(ps) :
        \A f \in {"latest_handshake", "transfer_rx", "transfer_tx"} :
            Numeric(ps[k][f]) /\ ParseInt(ps[k][f]).value >= 0

\* C27: after the first cycle of a process over a dump whose peer lines are
\* all well-formed, the rx counter holds the sum of the 7th fields and the tx
\* counter the sum of the 8th fields of the peer lines, the rx and tx bytes of
\* the parser's records
C27_CountersAddRxTx ==
    (mpc = "done" /\ collectError # "OSError" /\ WellFormed(dump)) =>
        /\ BYTES_RX = SumField(ExpectedPeers(dump), 1, "transfer_rx")
        /\ BYTES_TX = SumField(ExpectedPeers(dump), 1, "transfer_tx")

\* the same for the cycles that end without an error
CountersAddRxTxWhenNoError ==
    collectError = "" => C27_CountersAddRxTx

\* C28: after every cycle in which the dump was obtained, the
\* activeConnections gauge equals the number of peer lines (8 fields or
\* more) of that dump
C28_GaugeIsPeerCount ==
    (mpc = "done" /\ collectError # "OSError") =>
        ACTIVE_CONNECTIONS = LongLines(dump)

\* the same for the cycles that end without an error
GaugeIsPeerCountWhenNoError ==
    collectError = "" => C28_GaugeIsPeerCount

\* the accumulator: the gauge, the two counters and the handshake gauges
Accumulator == <<ACTIVE_CONNECTIONS, BYTES_RX, BYTES_TX, HANDSHAKE_TIMES>>

\* C29: the accumulator is changed only by telemetry cycles: a step that
\* changes one of its values is a step of collect_metrics and of nothing
\* else, so that every step of deploy, snapshot, list, terminate, remove,
\* start and stop leaves all of its values as they were
C29_OnlyCyclesChangeAccumulator ==
    [][Accumulator' # Accumulator =>
          /\ mpc' # mpc
          /\ UNCHANGED <<deployVars, unitOpVars, taskVars, callVars>>]_vars

\* a start command has started both threads and returned while a cycle of
\* the monitor thread has set the gauge and added to the counters
C29_Witness ==
    /\ command = "start"
    /\ startResult = "true"
    /\ exitStatus = 0
    /\ mpc = "done"
    /\ ACTIVE_CONNECTIONS > 0
    /\ BYTES_RX > 0
    /\ BYTES_TX > 0

\* in a process that serves another command the accumulator stays as created
OtherCommandsLeaveAccumulator == command # "start" => Untouched

\* each of the other operations has acted
DeployActed == command = "deploy" /\ ret.status = "success" /\ units # {}
SnapshotActed == command = "status" /\ opResult.op = "get_system_status"
ListActed == opResult.op = "list_instances" /\ opResult.items # <<>>
TerminateActed == opResult.op = "terminate_instance" /\ removeCalls # {}
StopActed == command = "stop" /\ stopResult = "true"

----------------------------------------------------------------------------
(* Properties of a failed create call *)

\* what create call k provisioned beside its unit, if it is still there
LeftBy(k) ==
    {a \in aux : /\ a[2] = callLog[k].req
                 /\ a[1] = (IF callLog[k].list = "cloud" THEN "security_group"
                                                         ELSE "config_map")}

\* C30: whenever a create call returned a Failure entry, no auxiliary
\* resource that the call provisioned remains: no security group of a failed
\* deploy_aws, no ConfigMap of a failed create_k8s_deployment
C30_FailedCreateLeavesNoAux ==
    \A k \in 1..Len(callLog) :
        callLog[k].outcome.status = "error" => LeftBy(k) = {}

\* the same for the security group alone, and for the ConfigMap alone
FailedAwsLeavesNoGroup ==
    \A k \in 1..Len(callLog) :
        (callLog[k].outcome.status = "error" /\ callLog[k].list = "cloud")
            => LeftBy(k) = {}

FailedK8sLeavesNoConfigMap ==
    \A k \in 1..Len(callLog) :
        (callLog[k].outcome.status = "error" /\ callLog[k].list = "container")
            => LeftBy(k) = {}

----------------------------------------------------------------------------
(* Properties of terminate_instance *)

Terminated == opResult.op = "terminate_instance"

\* C31: terminate_instance returns success only if a delete call for that
\* instance was issued to a backend (and did not raise); for a provider other
\* than aws, gcp and azure it issues no call and does not return success
C31_SuccessOnlyAfterDelete ==
    Terminated =>
        /\ opResult.status = "success" =>
              <<opResult.arg, opResult.id>> \in removeCalls
        /\ opResult.arg \notin CloudProviders =>
              /\ removeCalls = {}
              /\ opResult.status # "success"

\* the same for the three providers that terminate_instance knows
KnownProviderSuccessOnlyAfterDelete ==
    opResult.arg \in CloudProviders => C31_SuccessOnlyAfterDelete

\* for another provider no call is issued
UnknownProviderIssuesNoCall ==
    (Terminated /\ opResult.arg \notin CloudProviders) => removeCalls = {}

----------------------------------------------------------------------------
(* Properties of the dicts that the create calls return *)

\* C32: every outcome that a create call hands to deploy_infrastructure has
\* success or error as the value of its status field
C32_StatusIsSuccessOrError ==
    \A k \in 1..Len(callLog) : callLog[k].outcome.status \in {"success", "error"}

\* the same for the create calls other than create_docker_container
StatusIsSuccessOrErrorButDocker ==
    \A k \in 1..Len(callLog) :
        callLog[k].variant # "docker" =>
            callLog[k].outcome.status \in {"success", "error"}

----------------------------------------------------------------------------
(* Properties of the loop of WireGuardMonitor.run *)

\* C33: inside the collect/sleep loop a collection cycle that fails (the
\* engine call raises, a field is malformed, the counter rejects an
\* increment) does not end the loop: the next cycle is started, as long as
\* the run has cycles left
C33_FailedCycleIsFollowed ==
    (collectError # "" /\ cycles < MaxCycles) ~> (mpc = "start" /\ collectError = "")

\* the second cycle has started after a first one whose rx increment the
\* counter rejected: the gauge was set and nothing was added
C33_Witness ==
    /\ cycles = 1
    /\ mpc = "start"
    /\ ACTIVE_CONNECTIONS > 0
    /\ BYTES_RX = 0
    /\ BYTES_TX = 0

\* a failed cycle ends where the loop goes on: the call has returned
FailedCycleReturns ==
    collectError # "" => (mpc = "done" /\ (cycles < MaxCycles => ENABLED MonitorSleep))

\* each kind of failure is seen
EngineCallFailed == collectError = "OSError"
FieldMalformed == collectError = "ValueError" /\ ACTIVE_CONNECTIONS = 0 /\ total_rx = 0
IncrementRejected == collectError = "ValueError" /\ total_rx < 0

====
